---- MODULE Spec2Model ----
(***************************************************************************)
(* The Game2048 engine of 2048_game_version_2_pyqt6.py and                 *)
(* 2048_game_version_1_tkinter.py: grid transforms, tile spawn, score,     *)
(* terminal detection and the undo/redo history.                           *)
(*                                                                         *)
(* Python lists are objects: self.grid and the grid inside a history tuple *)
(* are references.  The model keeps a heap of grid objects so that the     *)
(* sharing made by set_state (self.grid = grid, no copy) and the in-place  *)
(* write of add_new_tile are visible.  Every code path that builds a grid  *)
(* (list comprehension, zip, slicing, deepcopy) builds the outer list and  *)
(* all its rows anew, so one heap object stands for a grid with its rows.  *)
(*                                                                         *)
(* The Game2048 classes of the two files are the same text except for what *)
(* move returns (a bool in version 2, nothing in version 1), so one run of *)
(* the model stands for both engines fed the same calls and random draws:  *)
(* result is what version 2 returned, result_v1 what version 1 returned.   *)
(***************************************************************************)
EXTENDS Integers, Sequences, FiniteSets, TLC

VARIABLES
    size,        \* self.size
    heap,        \* grid objects: object id -> list of rows
    grid,        \* self.grid, a reference into heap
    score,       \* self.score
    game_over,   \* self.game_over
    undo_stack,  \* self.undo_stack: tuples (grid reference, score, game_over)
    redo_stack,  \* self.redo_stack
    op,          \* the call that has just returned to the caller, "idle" between calls
    direction,   \* the argument of that call when it is a move
    result,      \* what it returned in version 2: "True" or "False"
    result_v1,   \* what it returned in version 1: "True", "False" or "None"
    before,      \* the Board State and undo stack when that call began, by value
    row_in,      \* the argument of a call of _merge made on its own
    row_out      \* the row that call returned, <<>> before it is made

vars == <<size, heap, grid, score, game_over, undo_stack, redo_stack,
          op, direction, result, result_v1, before, row_in, row_out>>

\* ---------------------------------------------------------------- bounds
MaxSize == 2
MaxHistory == 3
\* Tiles of the rows _merge is tried on: 2^1 .. 2^MaxExp.
MaxExp == 3

\* The grid side when none is given: def __init__(self, size=4).
DefaultSize == 4

\* The smallest grid the engine is built with, and the cells of that grid.
MinSize == 2
MinCells == 4

\* Entries the undo stack may reach on a grid of side n: MaxHistory on the
\* smallest grid, proportionally fewer on larger ones.
HistoryBound(n) == (MaxHistory * MinCells) \div (n * n)

\* Tiles on the grids of the default size that can_move and the transforms are
\* tried on.
MaxTiles == 3

\* ---------------------------------------------------------------- inputs
Directions == {"left", "right", "up", "down"}
\* "other" stands for any string outside the four directions.
Inputs == Directions \cup {"other"}

\* ---------------------------------------------------------------- pure helpers
Idx(n) == 1..n

\* A Python list built by a comprehension: the same sequence, its items
\* computed once, when the list is built.
List(items) == items \o <<>>

ZeroGrid(n) == List([r \in Idx(n) |-> List([c \in Idx(n) |-> 0])])

get_empty_cells(g) ==
    {rc \in Idx(Len(g)) \X Idx(Len(g)) : g[rc[1]][rc[2]] = 0}

\* What random.choice and random.random can produce in add_new_tile; "none"
\* when there is no empty cell and nothing is drawn.
SpawnChoices(g) ==
    IF get_empty_cells(g) = {} THEN {"none"}
    ELSE get_empty_cells(g) \X {2, 4}

\* add_new_tile writing the row after the drawn one, empty or not.
add_new_tile_any_cell(g, choice) ==
    IF get_empty_cells(g) # {}
    THEN [g EXCEPT ![(choice[1][1] % Len(g)) + 1][choice[1][2]] = choice[2]]
    ELSE g

\* add_new_tile drawing a cell and a value and writing nothing.
add_new_tile_skipped(g, choice) == g

add_new_tile(g, choice) ==
    IF get_empty_cells(g) # {}
    THEN [g EXCEPT ![choice[1][1]][choice[1][2]] = choice[2]]
    ELSE g

NonZero(row) == SelectSeq(row, LAMBDA v : v # 0)

\* _compress putting the zeros in front of the tiles.
compress_right(row, n) ==
    LET new_row == NonZero(row)
    IN  [k \in 1..(n - Len(new_row)) |-> 0] \o new_row

compress(row, n) ==
    LET new_row == NonZero(row)
    IN  new_row \o [k \in 1..(n - Len(new_row)) |-> 0]

\* The merge written into the right cell of the pair, the left one emptied.
MergeAtRight(row, i) == [row EXCEPT ![i] = 0, ![i + 1] = 2 * row[i]]

\* row[i] *= 3 in place of row[i] *= 2.
MergeAtTripled(row, i) == [row EXCEPT ![i] = 3 * row[i], ![i + 1] = 0]

\* row[i] *= 2 ... row[i+1] = 0: the writes of the if in the loop of _merge.
MergeAt(row, i) == [row EXCEPT ![i] = 2 * row[i], ![i + 1] = 0]

\* self.score += row[i] placed before the doubling.
ScoreAddedEarly(row, i) == row[i]

\* self.score += row[i], between the two writes: row[i] is already doubled.
ScoreAdded(row, i) == MergeAt(row, i)[i]

\* The for loop of _merge from index i on (1-based), carrying the score it
\* adds and the number of times the if was taken.
RECURSIVE MergeLoop(_, _, _, _, _)
MergeLoop(row, i, n, gain, merges) ==
    IF i > n - 1 THEN [row |-> row, gain |-> gain, merges |-> merges]
    ELSE IF row[i] # 0 /\ row[i] = row[i + 1]
         THEN MergeLoop(MergeAt(row, i), i + 1, n, gain + ScoreAdded(row, i), merges + 1)
         ELSE MergeLoop(row, i + 1, n, gain, merges)

merge(row, n) ==
    LET done == MergeLoop(compress(row, n), 1, n, 0, 0)
    IN  [row |-> compress(done.row, n), gain |-> done.gain, merges |-> done.merges]

transpose(g) == List([c \in Idx(Len(g)) |-> List([r \in Idx(Len(g)) |-> g[r][c]])])

\* _reverse turning the list of rows around where the code turns each row.
reverse_row_order(g) == List([r \in Idx(Len(g)) |-> g[Len(g) + 1 - r]])

reverse(g) ==
    List([r \in Idx(Len(g)) |-> List([c \in Idx(Len(g[r])) |-> g[r][Len(g[r]) + 1 - c]])])

RECURSIVE SumSeq(_)
SumSeq(s) == IF s = <<>> THEN 0 ELSE Head(s) + SumSeq(Tail(s))

\* self.grid = [self._merge(row) for row in self.grid], with the score the
\* calls of _merge add and the merges they perform.
MergeRows(g, n) ==
    LET done == List([r \in Idx(Len(g)) |-> merge(g[r], n)])
    IN  [grid |-> List([r \in Idx(Len(g)) |-> done[r].row]),
         gain |-> SumSeq([r \in Idx(Len(g)) |-> done[r].gain]),
         merges |-> SumSeq([r \in Idx(Len(g)) |-> done[r].merges])]

\* The if/elif chain of move: the grid self.grid is bound to afterwards, the
\* score added on the way and the merges performed.  A direction outside the
\* four runs no branch.
Transform(g, d, n) ==
    CASE d = "left"  -> MergeRows(g, n)
      [] d = "right" -> LET m == MergeRows(reverse(g), n)
                        IN  [m EXCEPT !.grid = reverse(m.grid)]
      [] d = "up"    -> LET m == MergeRows(transpose(g), n)
                        IN  [m EXCEPT !.grid = transpose(m.grid)]
      [] d = "down"  -> LET m == MergeRows(reverse(transpose(g)), n)
                        IN  [m EXCEPT !.grid = transpose(reverse(m.grid))]
      [] OTHER       -> [grid |-> g, gain |-> 0, merges |-> 0]

\* The chain writing the merged rows into the list self.grid already is.
RebindsNever(d) == FALSE

\* Whether the chain rebinds self.grid to a newly built list.
Rebinds(d) == d \in Directions

\* can_move without the comparison with the cell below.
can_move_rows_only(g) ==
    \/ get_empty_cells(g) # {}
    \/ \E r \in Idx(Len(g)), c \in Idx(Len(g)) :
          c < Len(g) /\ g[r][c] = g[r][c + 1]

\* can_move without the look for an empty cell.
can_move_pairs_only(g) ==
    \E r \in Idx(Len(g)), c \in Idx(Len(g)) :
       \/ c < Len(g) /\ g[r][c] = g[r][c + 1]
       \/ r < Len(g) /\ g[r][c] = g[r + 1][c]

can_move(g) ==
    \/ get_empty_cells(g) # {}
    \/ \E r \in Idx(Len(g)), c \in Idx(Len(g)) :
          \/ c < Len(g) /\ g[r][c] = g[r][c + 1]
          \/ r < Len(g) /\ g[r][c] = g[r + 1][c]

\* The comparison with original_grid left out.
ChangedAlways(g, original_grid) == TRUE

\* if self.grid != original_grid
Changed(g, original_grid) == g # original_grid

\* ---------------------------------------------------------------- heap
Fresh(h) == CHOOSE i \in 1..(Cardinality(DOMAIN h) + 1) : i \notin DOMAIN h

\* Object ref of heap h holding g; (ref :> g) @@ h is g at ref and h elsewhere.
Store(h, ref, g) == (ref :> g) @@ h

\* The references the engine holds, in a fixed order: the undo stack from the
\* bottom, the redo stack from the bottom, then self.grid.
Roots(e) ==
    [i \in 1..Len(e.undo_stack) |-> e.undo_stack[i].grid]
        \o [i \in 1..Len(e.redo_stack) |-> e.redo_stack[i].grid]
        \o <<e.grid>>

First(list, ref) ==
    CHOOSE i \in 1..Len(list) : list[i] = ref /\ \A j \in 1..(i - 1) : list[j] # ref

Rename(list, stack) ==
    List([i \in 1..Len(stack) |-> [stack[i] EXCEPT !.grid = First(list, stack[i].grid)]])

Relocate(e, list) ==
    [e EXCEPT !.heap = [o \in {First(list, list[i]) : i \in 1..Len(list)} |-> e.heap[list[o]]]
                         @@ <<>>,
              !.grid = First(list, e.grid),
              !.undo_stack = Rename(list, e.undo_stack),
              !.redo_stack = Rename(list, e.redo_stack)]

\* The engine's memory when a call returns: objects no reference reaches are
\* gone, and each object is named by the first place that refers to it (an
\* object's address is not observable, so engines that differ only in
\* addresses are one).
Collect(e) == Relocate(e, Roots(e))

\* get_state recording a game that is not over, whatever the flag says.
get_state_flag_lost(ref, sc, go) == [grid |-> ref, score |-> sc, game_over |-> FALSE]

\* get_state: the tuple it returns, its grid the deep copy placed at ref.
get_state(ref, sc, go) == [grid |-> ref, score |-> sc, game_over |-> go]

\* set_state: self.grid becomes the tuple's list itself, not a copy of it.
set_state(e, state) ==
    [e EXCEPT !.grid = state.grid, !.score = state.score, !.game_over = state.game_over]

\* save_state without self.redo_stack.clear().
save_state_keep_redo(e) ==
    [e EXCEPT !.heap = Store(e.heap, Fresh(e.heap), e.heap[e.grid]),
              !.undo_stack = Append(e.undo_stack,
                                    get_state(Fresh(e.heap), e.score, e.game_over))]

\* save_state: get_state() appended to undo_stack, its grid a deep copy of
\* self.grid, and redo_stack cleared.
save_state(e) ==
    [e EXCEPT !.heap = Store(e.heap, Fresh(e.heap), e.heap[e.grid]),
              !.undo_stack = Append(e.undo_stack,
                                    get_state(Fresh(e.heap), e.score, e.game_over)),
              !.redo_stack = <<>>]

\* A Python bool as returned to the caller.
Bool(b) == IF b THEN "True" ELSE "False"

\* move answering True on every path.
MoveResultAlways(moved) == Bool(TRUE)

\* What move returns in version 2: return False when the game is over, else
\* return moved.
MoveResult(moved) == Bool(moved)

\* What move returns in version 1: a bare return when the game is over, else
\* it falls off the end of the function; None either way.
MoveResultV1(moved) == "None"

\* Python truthiness of a returned value, as in `if self.game.move(...)`.
Truthy(r) == r = "True"

\* What a call hands back: the engine after it and the value returned by the
\* engine of each version.
Returned(e, r, r1) == [engine |-> Collect(e), result |-> r, result_v1 |-> r1]

\* ---------------------------------------------------------------- construction
\* __init__ calling add_new_tile once.
ConstructOneTile(n, c1, c2) ==
    save_state([size |-> n,
                heap |-> Store(<<>>, 1, add_new_tile(ZeroGrid(n), c1)),
                grid |-> 1,
                score |-> 0,
                game_over |-> FALSE,
                undo_stack |-> <<>>,
                redo_stack |-> <<>>])

\* __init__ with the two draws of add_new_tile.
Construct(n, c1, c2) ==
    save_state([size |-> n,
                heap |-> Store(<<>>, 1, add_new_tile(add_new_tile(ZeroGrid(n), c1), c2)),
                grid |-> 1,
                score |-> 0,
                game_over |-> FALSE,
                undo_stack |-> <<>>,
                redo_stack |-> <<>>])

\* ---------------------------------------------------------------- operations
\* The engine as the program holds it.
Engine ==
    [size |-> size, heap |-> heap, grid |-> grid, score |-> score,
     game_over |-> game_over, undo_stack |-> undo_stack, redo_stack |-> redo_stack]

\* The live Board State of engine e by value.
LiveOf(e) == [grid |-> e.heap[e.grid], score |-> e.score, game_over |-> e.game_over]

Live == LiveOf(Engine)

\* A history tuple of engine e by value.
SnapValOf(e, s) == [grid |-> e.heap[s.grid], score |-> s.score, game_over |-> s.game_over]

SnapVal(s) == SnapValOf(Engine, s)

\* The stacks of engine e by value.
UndoValsOf(e) == List([i \in 1..Len(e.undo_stack) |-> SnapValOf(e, e.undo_stack[i])])

RedoValsOf(e) == List([i \in 1..Len(e.redo_stack) |-> SnapValOf(e, e.redo_stack[i])])

\* What is kept of engine e when a call begins: the Board State, the undo
\* stack with every grid by value, and how many states redo_stack holds.
Observed(e) ==
    [grid |-> e.heap[e.grid], score |-> e.score, game_over |-> e.game_over,
     undo_stack |-> UndoValsOf(e), redoable |-> Len(e.redo_stack)]

\* if not self.can_move(): self.game_over = True
EndCheck(e) == IF ~can_move(e.heap[e.grid]) THEN [e EXCEPT !.game_over = TRUE] ELSE e

\* The branch with the terminal check made before save_state.
AcceptCheckFirst(e, choice) ==
    save_state(EndCheck([e EXCEPT !.heap[e.grid] = add_new_tile(e.heap[e.grid], choice)]))

\* The branch of move taken when the grid changed: add_new_tile writes into
\* the list self.grid refers to, then save_state, then the terminal check.
Accept(e, choice) ==
    EndCheck(save_state([e EXCEPT !.heap[e.grid] = add_new_tile(e.heap[e.grid], choice)]))

\* The list self.grid refers to after the if/elif chain of move: a new one
\* when a branch ran, the one it was otherwise.
ChainTarget(e, d) == IF Rebinds(d) THEN Fresh(e.heap) ELSE e.grid

\* The engine after the chain, t being what the chain computed.
Transformed(e, d, t) ==
    [e EXCEPT !.heap = Store(e.heap, ChainTarget(e, d), t.grid),
              !.grid = ChainTarget(e, d),
              !.score = e.score + t.gain]

\* move from the deepcopy of original_grid on, e1 being the engine after the
\* chain.
MoveTail(e1, original_grid, choice) ==
    IF Changed(e1.heap[e1.grid], original_grid)
    THEN Returned(Accept(e1, choice), MoveResult(TRUE), MoveResultV1(TRUE))
    ELSE Returned(e1, MoveResult(FALSE), MoveResultV1(FALSE))

\* move(direction), choice being what add_new_tile draws if it is reached.
MoveCall(e, d, choice) ==
    IF e.game_over
    THEN Returned(e, MoveResult(FALSE), MoveResultV1(FALSE))
    ELSE MoveTail(Transformed(e, d, Transform(e.heap[e.grid], d, e.size)),
                  e.heap[e.grid], choice)

\* The draws add_new_tile can make in move(d) on engine e.
MoveDraws(e, d) ==
    IF ~e.game_over /\ Changed(Transform(e.heap[e.grid], d, e.size).grid, e.heap[e.grid])
    THEN SpawnChoices(Transform(e.heap[e.grid], d, e.size).grid)
    ELSE {"none"}

\* undo() guarded by a non-empty stack and restoring the tuple it pops.
UndoCallPopsLast(e) ==
    IF Len(e.undo_stack) > 0
    THEN Returned(
           set_state(
             [e EXCEPT !.heap = Store(e.heap, Fresh(e.heap), e.heap[e.grid]),
                       !.redo_stack = Append(e.redo_stack,
                                             get_state(Fresh(e.heap), e.score, e.game_over)),
                       !.undo_stack = SubSeq(e.undo_stack, 1, Len(e.undo_stack) - 1)],
             e.undo_stack[Len(e.undo_stack)]),
           Bool(TRUE), Bool(TRUE))
    ELSE Returned(e, Bool(FALSE), Bool(FALSE))

\* undo(): the state pushed on redo_stack holds a deep copy of self.grid; the
\* tuple left on top of undo_stack is restored.
UndoCall(e) ==
    IF Len(e.undo_stack) > 1
    THEN Returned(
           set_state(
             [e EXCEPT !.heap = Store(e.heap, Fresh(e.heap), e.heap[e.grid]),
                       !.redo_stack = Append(e.redo_stack,
                                             get_state(Fresh(e.heap), e.score, e.game_over)),
                       !.undo_stack = SubSeq(e.undo_stack, 1, Len(e.undo_stack) - 1)],
             e.undo_stack[Len(e.undo_stack) - 1]),
           Bool(TRUE), Bool(TRUE))
    ELSE Returned(e, Bool(FALSE), Bool(FALSE))

\* redo() without self.undo_stack.append(self.get_state()).
PushStateSkipped(e) == e

\* self.undo_stack.append(self.get_state()) in redo: save_state without the
\* clearing of redo_stack.
PushState(e) ==
    [e EXCEPT !.heap = Store(e.heap, Fresh(e.heap), e.heap[e.grid]),
              !.undo_stack = Append(e.undo_stack,
                                    get_state(Fresh(e.heap), e.score, e.game_over))]

\* redo() reading self.redo_stack[-1] where the code pops.
RedoCallKeepsEntry(e) ==
    IF e.redo_stack # <<>>
    THEN Returned(PushState(set_state(e, e.redo_stack[Len(e.redo_stack)])),
                  Bool(TRUE), Bool(TRUE))
    ELSE Returned(e, Bool(FALSE), Bool(FALSE))

\* redo(): the popped tuple is restored, then a copy of it pushed on undo_stack.
RedoCall(e) ==
    IF e.redo_stack # <<>>
    THEN Returned(
           PushState(
             set_state(
               [e EXCEPT !.redo_stack = SubSeq(e.redo_stack, 1, Len(e.redo_stack) - 1)],
               e.redo_stack[Len(e.redo_stack)])),
           Bool(TRUE), Bool(TRUE))
    ELSE Returned(e, Bool(FALSE), Bool(FALSE))

\* The call returns to the caller: the engine is as the call left it.
Return(name, d, r) ==
    /\ size' = r.engine.size
    /\ heap' = r.engine.heap
    /\ grid' = r.engine.grid
    /\ score' = r.engine.score
    /\ game_over' = r.engine.game_over
    /\ undo_stack' = r.engine.undo_stack
    /\ redo_stack' = r.engine.redo_stack
    /\ op' = name
    /\ direction' = d
    /\ result' = r.result
    /\ result_v1' = r.result_v1
    /\ before' = Observed(Engine)
    /\ UNCHANGED <<row_in, row_out>>

Init ==
    /\ \E n \in MinSize..MaxSize :
       \E c1 \in SpawnChoices(ZeroGrid(n)) :
       \E c2 \in SpawnChoices(add_new_tile(ZeroGrid(n), c1)) :
       \E e \in {Collect(Construct(n, c1, c2))} :
          /\ size = e.size
          /\ heap = e.heap
          /\ grid = e.grid
          /\ score = e.score
          /\ game_over = e.game_over
          /\ undo_stack = e.undo_stack
          /\ redo_stack = e.redo_stack
          /\ before = Observed(e)
    /\ op = "init"
    /\ direction = "none"
    /\ result = "None"
    /\ result_v1 = "None"
    /\ row_in = <<>>
    /\ row_out = <<>>

move(d) ==
    /\ op = "idle"
    /\ \E choice \in MoveDraws(Engine, d) :
       \E r \in {MoveCall(Engine, d, choice)} :
          /\ Len(r.engine.undo_stack) <= HistoryBound(size)
          /\ Return("move", d, r)

undo ==
    /\ op = "idle"
    /\ \E r \in {UndoCall(Engine)} : Return("undo", "none", r)

redo ==
    /\ op = "idle"
    /\ \E r \in {RedoCall(Engine)} : Return("redo", "none", r)

\* The caller is done with the returned value and waits for the next event.
idle ==
    /\ op # "idle"
    /\ op' = "idle"
    /\ direction' = "none"
    /\ result' = "None"
    /\ result_v1' = "None"
    /\ before' = Observed(Engine)
    /\ UNCHANGED <<size, heap, grid, score, game_over, undo_stack, redo_stack,
                   row_in, row_out>>

Next ==
    \/ \E d \in Inputs : move(d)
    \/ undo
    \/ redo
    \/ idle

Spec == Init /\ [][Next]_vars

\* ---------------------------------------------------------------- _merge alone
TileValues == {0} \cup {2 ^ k : k \in 1..MaxExp}

RECURSIVE Rows(_)
Rows(n) == IF n = 0 THEN {<<>>} ELSE {Append(r, v) : r \in Rows(n - 1), v \in TileValues}

\* An engine of the default size about to merge one row; only size and score
\* matter to _merge.
InitMerge ==
    /\ row_in \in Rows(DefaultSize)
    /\ row_out = <<>>
    /\ size = DefaultSize
    /\ score = 0
    /\ heap = <<>>
    /\ grid = 0
    /\ game_over = FALSE
    /\ undo_stack = <<>>
    /\ redo_stack = <<>>
    /\ op = "idle"
    /\ direction = "none"
    /\ result = "None"
    /\ result_v1 = "None"
    /\ before = <<>>

\* self._merge(row)
MergeRow ==
    /\ op = "idle"
    /\ op' = "_merge"
    /\ row_out' = merge(row_in, size).row
    /\ score' = score + merge(row_in, size).gain
    /\ UNCHANGED <<size, heap, grid, game_over, undo_stack, redo_stack,
                   direction, result, result_v1, before, row_in>>

NextMerge == MergeRow

SpecMerge == InitMerge /\ [][NextMerge]_vars

\* ================================================================ claims
\* Helpers of the statements below.
Min(a, b) == IF a < b THEN a ELSE b

Top(stack) == stack[Len(stack)]

Cells(n) == Idx(n) \X Idx(n)

\* No direction's transform changes grid g.
Stuck(g, n) == \A d \in Directions : Transform(g, d, n).grid = g

UndoVals == UndoValsOf(Engine)

RedoVals == RedoValsOf(Engine)

\* All a caller can observe of the engine.
Everything == [live |-> Live, undo_stack |-> UndoVals, redo_stack |-> RedoVals]

\* The Board State kept in before.
BoardBefore == [grid |-> before.grid, score |-> before.score, game_over |-> before.game_over]

NonZeroCells(g) == Cardinality({rc \in Cells(Len(g)) : g[rc[1]][rc[2]] # 0})

\* What the directional transform made of the grid the last move began with.
Slid == Transform(before.grid, direction, size)

\* The call that has just returned is a move whose transform changed the grid.
AcceptedCall == op = "move" /\ ~before.game_over /\ Slid.grid # before.grid

\* Line k of grid g read from the edge the tiles move toward.
Line(g, d, k) ==
    CASE d = "left"  -> g[k]
      [] d = "right" -> List([c \in Idx(Len(g)) |-> g[k][Len(g) + 1 - c]])
      [] d = "up"    -> List([r \in Idx(Len(g)) |-> g[r][k]])
      [] d = "down"  -> List([r \in Idx(Len(g)) |-> g[Len(g) + 1 - r][k]])

\* The tiles of a line after a move toward its head, zeros left out: equal
\* neighbours pair up from the head, each tile in at most one pair.
RECURSIVE Pairwise(_)
Pairwise(s) ==
    IF Len(s) < 2 THEN s
    ELSE IF s[1] = s[2] THEN <<2 * s[1]>> \o Pairwise(Tail(Tail(s)))
         ELSE <<s[1]>> \o Pairwise(Tail(s))

\* The sum of the doubled values those pairs produce.
RECURSIVE PairGain(_)
PairGain(s) ==
    IF Len(s) < 2 THEN 0
    ELSE IF s[1] = s[2] THEN 2 * s[1] + PairGain(Tail(Tail(s)))
         ELSE PairGain(Tail(s))

Padded(s, n) == s \o [k \in 1..(n - Len(s)) |-> 0]

ExpectedGain(g, d) ==
    IF d \in Directions
    THEN SumSeq(List([k \in Idx(Len(g)) |-> PairGain(NonZero(Line(g, d, k)))]))
    ELSE 0

\* C1: in every state (after construction and after every completed move,
\* undo or redo) game_over is true if and only if none of the four
\* directions' transforms would change the live grid.
C1_GameOverIffStuck == game_over <=> Stuck(heap[grid], size)

\* A move has just ended the game.
C1_Witness == op = "move" /\ game_over /\ ~before.game_over /\ Stuck(heap[grid], size)

\* C2: when undo has returned true, a redo called next returns true and makes
\* grid, score and game_over what they were just before the undo.
C2_UndoThenRedo ==
    (op = "undo" /\ result = "True")
        => /\ RedoCall(Engine).result = "True"
           /\ RedoCall(Engine).result_v1 = "True"
           /\ LiveOf(RedoCall(Engine).engine) = BoardBefore

\* undo has just left a finished game, and redo brings it back.
C2_Witness ==
    /\ op = "undo" /\ result = "True"
    /\ before.game_over /\ ~game_over
    /\ LiveOf(RedoCall(Engine).engine).game_over

\* C3: a snapshot keeps its grid, score and game_over for as long as it stays
\* on undo_stack or redo_stack, whatever call is made.
C3_SnapshotsImmutable ==
    [][/\ \A i \in 1..Min(Len(undo_stack), Len(undo_stack')) :
             SnapVal(undo_stack[i])' = SnapVal(undo_stack[i])
       /\ \A i \in 1..Min(Len(redo_stack), Len(redo_stack')) :
             SnapVal(redo_stack[i])' = SnapVal(redo_stack[i])]_vars

\* move was called while self.grid was the very list held by the snapshot on
\* top of undo_stack (as undo leaves it), and the two are still that list.
C3_Witness ==
    /\ op = "move" /\ direction = "other"
    /\ grid = Top(undo_stack).grid
    /\ redo_stack # <<>>

\* C4: an accepted move leaves (nonzero cells before) - (merges performed) + 1
\* nonzero cells: the spawn always finds an empty cell.
C4_CellCount ==
    AcceptedCall =>
        NonZeroCells(heap[grid]) = NonZeroCells(before.grid) - Slid.merges + 1

\* An accepted move that merged: the spawn made up for the merged tile.
C4_Witness ==
    /\ AcceptedCall
    /\ Slid.merges = 1
    /\ NonZeroCells(heap[grid]) = NonZeroCells(before.grid)

\* C5: _merge moves the nonzero tiles to the left in their order and pairs
\* equal neighbours from the left, each tile in at most one pair: a tile a
\* merge produced does not merge again in the same call.
C5_MergeOnce ==
    op = "_merge" =>
        /\ row_out = Padded(Pairwise(NonZero(row_in)), Len(row_in))
        /\ row_in = <<2, 2, 2, 0>> => row_out = <<4, 2, 0, 0>>
        /\ row_in = <<2, 2, 4, 0>> => row_out = <<4, 4, 0, 0>>
        /\ row_in = <<2, 2, 2, 2>> => row_out = <<4, 4, 0, 0>>

\* The 4 made of the first two 2s was not merged with the 4 behind them.
C5_Witness == op = "_merge" /\ row_in = <<2, 2, 4, 0>> /\ row_out = <<4, 4, 0, 0>>

\* C6: move never lowers score, and adds to it exactly the doubled values of
\* the merges it performs.
C6_ScoreGain ==
    op = "move" =>
        /\ score >= before.score
        /\ score = before.score
                     + (IF before.game_over THEN 0 ELSE ExpectedGain(before.grid, direction))

\* An accepted move that merged and one that only slid both occur; this is
\* the one that merged.
C6_Witness == AcceptedCall /\ score > before.score

\* C7: move on a finished game changes nothing and reports no move.
C7_GameOverNoOp ==
    [][(op' = "move" /\ game_over)
        => (Everything' = Everything /\ result' = "False" /\ ~Truthy(result_v1'))]_vars

\* move has been called on a finished game.
C7_Witness == op = "move" /\ before.game_over /\ game_over /\ result = "False"

\* C8: a move whose transform leaves the grid as it was, a direction outside
\* the four included, changes nothing: no spawn, no snapshot, redo_stack kept,
\* game_over as it was.
C8_RejectedNoOp ==
    [][(op' = "move" /\ Transform(heap[grid], direction', size).grid = heap[grid])
        => Everything' = Everything]_vars

\* One of the four directions moved nothing while redo_stack held a state.
C8_Witness ==
    /\ op = "move" /\ direction \in Directions
    /\ ~before.game_over /\ Slid.grid = before.grid
    /\ redo_stack # <<>>

\* C9: an accepted move fills exactly one cell the transform left empty with
\* 2 or 4 and changes no other cell, makes undo_stack one entry longer and
\* leaves redo_stack empty, so that redo() then returns false.
C9_AcceptedMove ==
    AcceptedCall =>
        /\ \E rc \in Cells(size) :
              /\ Slid.grid[rc[1]][rc[2]] = 0
              /\ heap[grid][rc[1]][rc[2]] \in {2, 4}
              /\ \A other \in Cells(size) \ {rc} :
                    heap[grid][other[1]][other[2]] = Slid.grid[other[1]][other[2]]
        /\ Len(undo_stack) = Len(before.undo_stack) + 1
        /\ redo_stack = <<>>
        /\ RedoCall(Engine).result = "False"

\* A move accepted after an undo: the undone state is gone from redo_stack.
C9_Witness ==
    /\ AcceptedCall
    /\ before.redoable > 0
    /\ Len(undo_stack) = Len(before.undo_stack) + 1
    /\ redo_stack = <<>>

\* C10: move returns true exactly when the transform changed the grid and
\* false otherwise, in both source files.
C10_MoveReturnsChanged ==
    op = "move" => (result = Bool(AcceptedCall) /\ result_v1 = Bool(AcceptedCall))

\* ---------------------------------------------------------------- C11..C20
\* All a caller can observe of engine e.
EverythingOf(e) ==
    [live |-> LiveOf(e), undo_stack |-> UndoValsOf(e), redo_stack |-> RedoValsOf(e)]

\* v is a power of two, 2 at least.
RECURSIVE IsPowerOfTwo(_)
IsPowerOfTwo(v) == v = 2 \/ (v > 2 /\ v % 2 = 0 /\ IsPowerOfTwo(v \div 2))

\* g is n rows of n cells, each empty or a power of two.
WellFormed(g, n) ==
    /\ Len(g) = n
    /\ \A r \in Idx(n) :
          /\ Len(g[r]) = n
          /\ \A c \in Idx(n) : g[r][c] = 0 \/ IsPowerOfTwo(g[r][c])

\* C11: undo_stack always holds an entry, and its first entry stays the one
\* it was; with exactly one entry undo() returns False and leaves grid, score,
\* game_over and both stacks as they are.
C11_HistoryFloor ==
    /\ Len(undo_stack) >= 1
    /\ UndoVals[1] = before.undo_stack[1]
    /\ Len(undo_stack) = 1 =>
          /\ UndoCall(Engine).result = "False"
          /\ UndoCall(Engine).result_v1 = "False"
          /\ EverythingOf(UndoCall(Engine).engine) = Everything
    /\ (op = "undo" /\ Len(before.undo_stack) = 1) =>
          /\ result = "False"
          /\ Live = BoardBefore
          /\ UndoVals = before.undo_stack
          /\ Len(redo_stack) = before.redoable

\* undo() was refused on the floor of the history while redo_stack held a state.
C11_Witness ==
    /\ op = "undo" /\ result = "False"
    /\ Len(undo_stack) = 1
    /\ redo_stack # <<>>

\* C13: every cell of the live grid and of every grid on undo_stack and
\* redo_stack is 0 or a power of two that is at least 2, and each of these
\* grids is size rows of size cells.
C13_TilesArePowersOfTwo ==
    /\ WellFormed(heap[grid], size)
    /\ \A i \in 1..Len(undo_stack) : WellFormed(UndoVals[i].grid, size)
    /\ \A i \in 1..Len(redo_stack) : WellFormed(RedoVals[i].grid, size)

\* A merge of two 4s has made an 8, and a grid is on each stack.
C13_Witness ==
    /\ \E rc \in Cells(size) : heap[grid][rc[1]][rc[2]] = 8
    /\ Len(undo_stack) > 1

\* C14: right after construction the grid has exactly two nonzero cells, each
\* 2 or 4, score is 0, game_over is false, undo_stack holds one snapshot equal
\* to the live state, and redo_stack is empty.
C14_Construction ==
    op = "init" =>
        /\ Len(heap[grid]) = size
        /\ NonZeroCells(heap[grid]) = 2
        /\ \A rc \in Cells(size) : heap[grid][rc[1]][rc[2]] \in {0, 2, 4}
        /\ score = 0
        /\ ~game_over
        /\ Len(undo_stack) = 1
        /\ UndoVals[1] = Live
        /\ redo_stack = <<>>

\* An engine just built, with a 2 and a 4 on its grid.
C14_Witness ==
    /\ op = "init"
    /\ \E a \in Cells(size), b \in Cells(size) :
          heap[grid][a[1]][a[2]] = 2 /\ heap[grid][b[1]][b[2]] = 4

\* C16 as stated: the snapshot an accepted move pushes equals the Board State
\* live when the move returns, game_over included.
C16_SnapshotIsLive == AcceptedCall => Top(UndoVals) = Live

\* C16: the snapshot an accepted move pushes is a copy of the grid and score
\* live when the move returns, taken before the terminal check: its game_over
\* is false, so it equals the live Board State unless the move ends the game.
C16_SnapshotBeforeEndCheck ==
    AcceptedCall =>
        /\ Top(undo_stack).grid # grid
        /\ Top(UndoVals).grid = Live.grid
        /\ Top(UndoVals).score = score
        /\ Top(UndoVals).game_over = FALSE
        /\ (Top(UndoVals) = Live) <=> ~game_over

\* The move ended the game and its snapshot says the game is not over.
C16_Witness == AcceptedCall /\ game_over /\ ~Top(UndoVals).game_over

\* C18: undo() called right after an accepted move returns True and restores
\* the grid, score and game_over live before the move; in every state the grid
\* and score on top of undo_stack are the live ones.
C18_MoveThenUndo ==
    /\ Top(UndoVals).grid = Live.grid
    /\ Top(UndoVals).score = score
    /\ AcceptedCall =>
          /\ UndoCall(Engine).result = "True"
          /\ UndoCall(Engine).result_v1 = "True"
          /\ LiveOf(UndoCall(Engine).engine) = BoardBefore

\* A move accepted on a state with a merge behind it: undo has to bring back
\* a score that is not 0.
C18_Witness ==
    /\ AcceptedCall
    /\ before.score > 0
    /\ LiveOf(UndoCall(Engine).engine).score = before.score

\* C20: while game_over is true redo_stack is empty and redo() returns False;
\* move and redo leave the state as it is and undo() leads to a state that is
\* not over.
C20_GameOverIsLast ==
    game_over =>
        /\ redo_stack = <<>>
        /\ RedoCall(Engine).result = "False"
        /\ EverythingOf(RedoCall(Engine).engine) = Everything
        /\ \A d \in Inputs : EverythingOf(MoveCall(Engine, d, "none").engine) = Everything
        /\ UndoCall(Engine).result = "True"
        /\ ~LiveOf(UndoCall(Engine).engine).game_over

\* redo() has brought a finished game back.
C20_Witness == op = "redo" /\ result = "True" /\ game_over /\ redo_stack = <<>>

\* ---------------------------------------------------------------- can_move and the chain alone
\* The values add_new_tile writes: 2 if random.random() < 0.9 else 4.
SpawnValues == {2, 4}

BoardTiles == {0} \cup SpawnValues

\* The grid of side n with tiles f, a function from some of its cells to values.
GridOf(n, f) ==
    List([r \in Idx(n) |->
            List([c \in Idx(n) |-> IF <<r, c>> \in DOMAIN f THEN f[<<r, c>>] ELSE 0])])

\* An engine holding grid g; only size and grid matter to can_move and to the
\* chain of move.
Holding(n, g) ==
    [size |-> n, heap |-> Store(<<>>, 1, g), grid |-> 1, score |-> 0,
     game_over |-> FALSE, undo_stack |-> <<>>, redo_stack |-> <<>>]

\* The sets of at most MaxTiles cells of the default grid.
FewCells == {T \in SUBSET Cells(DefaultSize) : Cardinality(T) <= MaxTiles}

Holds(e) ==
    /\ size = e.size
    /\ heap = e.heap
    /\ grid = e.grid
    /\ score = e.score
    /\ game_over = e.game_over
    /\ undo_stack = e.undo_stack
    /\ redo_stack = e.redo_stack
    /\ before = Observed(e)

\* Every grid of side MinSize..MaxSize over 0, 2 and 4, and every grid of the
\* default size with at most MaxTiles tiles.
InitBoard ==
    /\ \/ \E n \in MinSize..MaxSize : \E f \in [Cells(n) -> BoardTiles] :
             \E e \in {Holding(n, GridOf(n, f))} : Holds(e)
       \/ \E T \in FewCells : \E f \in [T -> SpawnValues] :
             \E e \in {Holding(DefaultSize, GridOf(DefaultSize, f))} : Holds(e)
    /\ op = "idle"
    /\ direction = "none"
    /\ result = "None"
    /\ result_v1 = "None"
    /\ row_in = <<>>
    /\ row_out = <<>>

\* self.can_move()
CanMove ==
    /\ op = "idle"
    /\ op' = "can_move"
    /\ result' = Bool(can_move(heap[grid]))
    /\ result_v1' = Bool(can_move(heap[grid]))
    /\ UNCHANGED <<size, heap, grid, score, game_over, undo_stack, redo_stack,
                   direction, before, row_in, row_out>>

\* The if/elif chain of move(d), up to the comparison with original_grid.
Chain(d) ==
    /\ op = "idle"
    /\ \E e \in {Collect(Transformed(Engine, d, Transform(heap[grid], d, size)))} :
          /\ heap' = e.heap
          /\ grid' = e.grid
          /\ score' = e.score
    /\ op' = "chain"
    /\ direction' = d
    /\ before' = Observed(Engine)
    /\ UNCHANGED <<size, game_over, undo_stack, redo_stack, result, result_v1,
                   row_in, row_out>>

NextBoard ==
    \/ CanMove
    \/ \E d \in Inputs : Chain(d)

SpecBoard == InitBoard /\ [][NextBoard]_vars

\* Cells a and b are neighbours in a row or in a column.
Adjacent(a, b) ==
    \/ a[1] = b[1] /\ (a[2] = b[2] + 1 \/ b[2] = a[2] + 1)
    \/ a[2] = b[2] /\ (a[1] = b[1] + 1 \/ b[1] = a[1] + 1)

\* C12: can_move() returns False if and only if the grid has no empty cell
\* and no two cells adjacent in a row or a column hold the same value.
C12_CanMove ==
    op = "can_move" =>
        /\ result \in {"True", "False"}
        /\ result = "False" <=>
              /\ \A a \in Cells(size) : heap[grid][a[1]][a[2]] # 0
              /\ \A a \in Cells(size), b \in Cells(size) :
                    Adjacent(a, b) => heap[grid][a[1]][a[2]] # heap[grid][b[1]][b[2]]

\* can_move() has returned False on a full grid.
C12_Witness ==
    /\ op = "can_move" /\ result = "False"
    /\ \A a \in Cells(size) : heap[grid][a[1]][a[2]] # 0

\* The left transform of grid g.
Left(g) == Transform(g, "left", Len(g)).grid

\* C17: each direction's transform is the row merge applied to every line of
\* cells read from the edge the tiles move toward; right is the left
\* transform between two reversals, up between two transpositions, down
\* between both; the grid keeps its side, and a row 2,2,2,0 moved right
\* becomes 0,0,2,4.
C17_Directions ==
    (op = "chain" /\ direction \in Directions) =>
        /\ Len(heap[grid]) = size
        /\ \A k \in Idx(size) :
              /\ Len(heap[grid][k]) = size
              /\ Line(heap[grid], direction, k) = merge(Line(before.grid, direction, k), size).row
              /\ Line(heap[grid], direction, k)
                    = Padded(Pairwise(NonZero(Line(before.grid, direction, k))), size)
              /\ (direction = "right" /\ before.grid[k] = <<2, 2, 2, 0>>)
                    => heap[grid][k] = <<0, 0, 2, 4>>
        /\ direction = "right" => heap[grid] = reverse(Left(reverse(before.grid)))
        /\ direction = "up" => heap[grid] = transpose(Left(transpose(before.grid)))
        /\ direction = "down" =>
              heap[grid] = transpose(reverse(Left(reverse(transpose(before.grid)))))

\* The row 2,2,2,0 has been moved right: the pair at the right edge merged.
C17_Witness ==
    /\ op = "chain" /\ direction = "right"
    /\ before.grid[1] = <<2, 2, 2, 0>>
    /\ heap[grid][1] = <<0, 0, 2, 4>>

\* ---------------------------------------------------------------- the first move on the default grid
\* Game2048(): the engine of the default size after construction.
InitFirst ==
    /\ \E c1 \in SpawnChoices(ZeroGrid(DefaultSize)) :
       \E c2 \in SpawnChoices(add_new_tile(ZeroGrid(DefaultSize), c1)) :
       \E e \in {Collect(Construct(DefaultSize, c1, c2))} : Holds(e)
    /\ op = "init"
    /\ direction = "none"
    /\ result = "None"
    /\ result_v1 = "None"
    /\ row_in = <<>>
    /\ row_out = <<>>

\* The first call made on that engine is move(d).
first_move(d) ==
    /\ op = "init"
    /\ \E choice \in MoveDraws(Engine, d) :
       \E r \in {MoveCall(Engine, d, choice)} : Return("move", d, r)

NextFirst == \E d \in Inputs : first_move(d)

SpecFirst == InitFirst /\ [][NextFirst]_vars

\* The grid of the scenario: 2, 2 at the left of the top row.
TwoTwos == GridOf(DefaultSize, (<<1, 1>> :> 2) @@ (<<1, 2>> :> 2))

\* move(left) has just returned and began on that grid.
TwoTwosMovedLeft ==
    op = "move" /\ direction = "left" /\ before.grid = TwoTwos /\ ~before.game_over

\* C15 as stated: after move(left) on the scenario's grid the top row is
\* 4,0,0,0 whatever the spawn draws, score is 4 more, and there are 2 tiles.
C15_TopRowKept ==
    TwoTwosMovedLeft =>
        /\ heap[grid][1] = <<4, 0, 0, 0>>
        /\ score = before.score + 4
        /\ NonZeroCells(heap[grid]) = 2

\* C15: the transform makes the top row 4,0,0,0 and score 4 more; the spawn
\* then puts a 2 or a 4 on one of the 15 other cells, top row included, and
\* the grid has 2 tiles; the top row is still 4,0,0,0 exactly when the spawn
\* fell on another row.
C15_Scenario ==
    TwoTwosMovedLeft =>
        /\ Slid.grid = GridOf(DefaultSize, <<1, 1>> :> 4)
        /\ result = "True"
        /\ score = before.score + 4
        /\ NonZeroCells(heap[grid]) = 2
        /\ heap[grid][1][1] = 4
        /\ \E rc \in Cells(DefaultSize) \ {<<1, 1>>} :
              /\ heap[grid][rc[1]][rc[2]] \in SpawnValues
              /\ heap[grid][1] = <<4, 0, 0, 0>> <=> rc[1] # 1

\* The spawn fell on the top row, next to the 4.
C15_Witness == TwoTwosMovedLeft /\ heap[grid][1] = <<4, 2, 0, 0>>

\* ---------------------------------------------------------------- a game of moves only
\* In a run of moves only nothing reads undo_stack below its top (move only
\* appends to it): the run is followed with the entries below the top gone.
Forget(r) ==
    [r EXCEPT !.engine =
        Collect([r.engine EXCEPT !.undo_stack = <<Top(r.engine.undo_stack)>>])]

\* An engine of the smallest size after construction.
InitPlay ==
    /\ \E c1 \in SpawnChoices(ZeroGrid(MinSize)) :
       \E c2 \in SpawnChoices(add_new_tile(ZeroGrid(MinSize), c1)) :
       \E e \in {Collect(Construct(MinSize, c1, c2))} : Holds(e)
    /\ op = "init"
    /\ direction = "none"
    /\ result = "None"
    /\ result_v1 = "None"
    /\ row_in = <<>>
    /\ row_out = <<>>

\* move(d), whatever call came before it.
play(d) ==
    \E choice \in MoveDraws(Engine, d) :
    \E r \in {Forget(MoveCall(Engine, d, choice))} : Return("move", d, r)

NextPlay == \E d \in Inputs : play(d)

\* The caller may call move with any argument at any time, or stop calling.
SpecPlay == InitPlay /\ [][NextPlay]_vars

\* The sum of the tiles of grid g.
GridSum(g) == SumSeq(List([r \in Idx(Len(g)) |-> SumSeq(g[r])]))

\* The transform keeps the sum of the tiles, and a call of move raises it by
\* the spawned 2 or 4 when it is accepted and by nothing otherwise.
SumLaw ==
    op = "move" =>
        /\ GridSum(Slid.grid) = GridSum(before.grid)
        /\ IF AcceptedCall
           THEN GridSum(heap[grid]) - GridSum(before.grid) \in SpawnValues
           ELSE GridSum(heap[grid]) = GridSum(before.grid)

\* Some direction's move would be accepted.
CanAccept ==
    ~game_over /\ \E d \in Directions : Changed(Transform(heap[grid], d, size).grid, heap[grid])

\* C19: the transform conserves the sum of the tiles and every accepted move
\* raises it by the spawned value; in a run of moves only, the accepted moves
\* come to an end; and as long as game_over is false a move can still be
\* accepted, so a run that makes an accepted move whenever one exists ends
\* with game_over true.
C19_GameEnds ==
    /\ []SumLaw
    /\ [](game_over \/ CanAccept)
    /\ <>[][~(op' = "move" /\ result' = "True")]_vars

\* An accepted move that merged has ended the game: the sum grew by the spawn
\* alone.
C19_Witness ==
    /\ AcceptedCall /\ game_over
    /\ Slid.merges > 0
    /\ GridSum(heap[grid]) > GridSum(before.grid)

====
